---- MODULE Spec2Model ----
(***************************************************************************)
(* Model of onE(agg).py: the position manager, the cooldown gate, one      *)
(* decision cycle (main) and the outer loop (run_forever).                 *)
(*                                                                         *)
(* Units.  USD amounts (price, balance, trade size) are whole cents.       *)
(* take_profit and stop_loss are price * 1.007 and price * 0.985 and are   *)
(* kept in thousandths of a cent (cents * MULT_SCALE) so the products are  *)
(* exact.  Quantities are in 10^-6 BTC.  Confidence is in hundredths.      *)
(* Time is in ticks, TicksPerSecond ticks to the second.                   *)
(* The arithmetic is exact decimal arithmetic; the program uses binary     *)
(* floating point (100 * 1.007 is 100.69999999999999 there).               *)
(***************************************************************************)
EXTENDS Integers, Sequences, FiniteSets, TLC

VARIABLES
    position,         \* the PositionManager singleton (line 138)
    last_trade_time,  \* the cooldown timestamp (line 142), None or ticks
    clock,            \* datetime.now(), in ticks
    model_exists,     \* os.path.exists('model_aggressive.pkl')
    pc,               \* where run_forever is: "main", "sleep", "terminated"
    cycle,            \* journal of the last execution of main()
    call              \* journal of the last direct call (SpecGate, SpecPos)

vars == <<position, last_trade_time, clock, model_exists, pc, cycle, call>>

(***************************************************************************)
(* Bounds of the model                                                     *)
(***************************************************************************)
TicksPerSecond == 2
MaxSeconds == 250        \* run_forever starts no cycle after this time
MaxGateCalls == 3        \* SpecGate: number of calls of can_trade
MaxPosCalls == 3         \* SpecPos: number of calls of the position manager

(***************************************************************************)
(* Program constants                                                       *)
(***************************************************************************)
None == 0 - 1                  \* Python's None, for a number that is absent
CONFIDENCE_THRESHOLD == 60     \* 0.6, in hundredths
COOLDOWN_SECONDS == 60         \* can_trade: .seconds > 60
SLEEP_SECONDS == 60            \* run_forever: time.sleep(60)
TP_MULTIPLIER == 1007          \* 1.007, in thousandths
SL_MULTIPLIER == 985           \* 0.985, in thousandths
MULT_SCALE == 1000
TRADE_PERCENT == 20            \* usdt_balance * 0.20
BTC_DECIMALS == 6              \* round(.., 6)
CENTS == 100                   \* round(.., 2): amounts are whole cents
HORIZON == 3                   \* add_target(df, horizon=3)
LONGEST_WINDOW == 50           \* SMA_50, the longest rolling window
SecondsPerDay == 24 * 60 * 60
Unset == 0 - 2                 \* journal: a value the cycle never obtained

(***************************************************************************)
(* Arithmetic helpers                                                      *)
(***************************************************************************)
\* Python's round(): n / d rounded to the nearest integer, ties to even.
RoundHalfEven(n, d) ==
    LET q == n \div d
        r == n % d
    IN  IF 2 * r < d THEN q
        ELSE IF 2 * r > d THEN q + 1
        ELSE IF q % 2 = 0 THEN q ELSE q + 1

\* <<floor(n * 10^k / d), (n * 10^k) mod d>>, by long division.
RECURSIVE ScaledDiv(_, _, _)
ScaledDiv(n, d, k) ==
    IF k = 0 THEN <<n \div d, n % d>>
    ELSE LET p == ScaledDiv(n, d, k - 1)
         IN  <<p[1] * 10 + (p[2] * 10) \div d, (p[2] * 10) % d>>

\* round(n / d, k) in units of 10^-k, ties to even.
RoundDiv(n, d, k) ==
    LET p == ScaledDiv(n, d, k)
    IN  IF 2 * p[2] < d THEN p[1]
        ELSE IF 2 * p[2] > d THEN p[1] + 1
        ELSE IF p[1] % 2 = 0 THEN p[1] ELSE p[1] + 1

\* timedelta.seconds: the seconds field of a non-negative duration, which
\* drops whole days and the fraction of a second.
TimedeltaSeconds(ticks) == (ticks \div TicksPerSecond) % SecondsPerDay

(***************************************************************************)
(* Position Manager                                                        *)
(***************************************************************************)
PositionManagerInit ==
    [in_position |-> FALSE, entry_price |-> None, take_profit |-> None,
     stop_loss |-> None, quantity |-> None]

\* mutant: the two multipliers exchanged
open_position_swapped(pos, price, quantity) ==
    [in_position |-> TRUE,
     entry_price |-> price,
     quantity    |-> quantity,
     take_profit |-> price * SL_MULTIPLIER,
     stop_loss   |-> price * TP_MULTIPLIER]

open_position(pos, price, quantity) ==
    [in_position |-> TRUE,
     entry_price |-> price,
     quantity    |-> quantity,
     take_profit |-> price * TP_MULTIPLIER,
     stop_loss   |-> price * SL_MULTIPLIER]

\* mutant: the boundaries excluded
should_close_position_strict(pos, current_price) ==
    IF current_price = None \/ pos.take_profit = None
    THEN [raised |-> TRUE, ret |-> FALSE]
    ELSE [raised |-> FALSE,
          ret |-> \/ current_price * MULT_SCALE > pos.take_profit
                  \/ current_price * MULT_SCALE < pos.stop_loss]

\* [raised, ret]: comparing a number with None raises TypeError.
should_close_position(pos, current_price) ==
    IF current_price = None \/ pos.take_profit = None
    THEN [raised |-> TRUE, ret |-> FALSE]
    ELSE IF current_price * MULT_SCALE >= pos.take_profit
    THEN [raised |-> FALSE, ret |-> TRUE]
    ELSE IF current_price * MULT_SCALE <= pos.stop_loss
    THEN [raised |-> FALSE, ret |-> TRUE]
    ELSE [raised |-> FALSE, ret |-> FALSE]

\* mutant: the flag is reset and the four fields are left as they were
close_position_keeps_fields(pos) == [pos EXCEPT !.in_position = FALSE]

close_position(pos) ==
    [in_position |-> FALSE, entry_price |-> None, take_profit |-> None,
     stop_loss |-> None, quantity |-> None]

(***************************************************************************)
(* Cooldown Gate                                                           *)
(***************************************************************************)
\* mutant: the timestamp is reset on every call, admitted or not
can_trade_stamps_always(last, now) ==
    [ret |-> last = None \/ TimedeltaSeconds(now - last) > COOLDOWN_SECONDS,
     last |-> now]

\* [ret, last]: the value returned and last_trade_time after the call.
can_trade(last, now) ==
    IF last = None \/ TimedeltaSeconds(now - last) > COOLDOWN_SECONDS
    THEN [ret |-> TRUE, last |-> now]
    ELSE [ret |-> FALSE, last |-> last]

(***************************************************************************)
(* What the collaborators can answer in one cycle                          *)
(***************************************************************************)
Ok(v) == [ok |-> TRUE, val |-> v]
Raises == [ok |-> FALSE, val |-> Unset]

Prices == {9850, 10000, 10070}                  \* cents
PriceResults == {Raises, Ok(None), Ok(0)} \cup {Ok(p) : p \in Prices}
BalanceResults == {Raises, Ok(100000), Ok(100003)}      \* cents
BookResults ==
    {[ok |-> FALSE, val |-> <<0, 0>>], Ok(<<0, 0>>), Ok(<<30, 10>>)}
HistoryResults == {Raises, Ok(40), Ok(60)}      \* number of bars returned
Classes == {0 - 1, 0, 1}
Confidences == {55, 60, 75}                     \* hundredths
CycleTicks == {0, TicksPerSecond}               \* time one cycle takes

(***************************************************************************)
(* Journal of one execution of main()                                      *)
(***************************************************************************)
NoOrder == [side |-> "NONE", amount |-> 0]

NewCycle(pos, last) ==
    [start |-> pos, start_last |-> last, gate |-> FALSE, calls |-> <<>>,
     price |-> Unset, balance |-> Unset, bars |-> Unset, row |-> Unset,
     prediction |-> Unset, confidence |-> Unset,
     order |-> NoOrder, order_failed |-> FALSE,
     outcome |-> "none", error |-> "",
     now |-> Unset,                 \* the clock when can_trade was called
     book |-> <<Unset, Unset>>,     \* bid_volume, ask_volume
     fits |-> 0]                    \* model.fit() calls that returned, so far

Called(j, name) == [j EXCEPT !.calls = Append(@, name)]

Has(j, name) == \E i \in 1..Len(j.calls) : j.calls[i] = name

Count(j, name) == Cardinality({i \in 1..Len(j.calls) : j.calls[i] = name})

\* main() returns normally
Return(pos, last, mex, j) ==
    /\ position' = pos
    /\ last_trade_time' = last
    /\ model_exists' = mex
    /\ cycle' = [j EXCEPT !.outcome = "returned"]

\* an exception leaves main()
Raise(pos, last, mex, j, err) ==
    /\ position' = pos
    /\ last_trade_time' = last
    /\ model_exists' = mex
    /\ cycle' = [j EXCEPT !.outcome = "raised", !.error = err]

(***************************************************************************)
(* Decision Engine: main(), last step first                                *)
(***************************************************************************)
\* line 176: round(usdt_balance * 0.20, 2), in cents
trade_usdt(usdt_balance) ==
    RoundHalfEven(usdt_balance * TRADE_PERCENT, CENTS)

\* mutant: truncated to 6 decimals, not rounded
btc_amount_truncated(trade, live_price) ==
    ScaledDiv(trade, live_price, BTC_DECIMALS)[1]

\* line 177: round(trade_usdt / live_price, 6), in 10^-6 BTC
btc_amount(trade, live_price) == RoundDiv(trade, live_price, BTC_DECIMALS)

\* line 177 raises TypeError on a missing price and ZeroDivisionError on 0
SizingError(live_price) ==
    IF live_price = None THEN "TypeError"
    ELSE IF live_price = 0 THEN "ZeroDivisionError"
    ELSE ""

\* mutant: a rejected BUY is submitted a second time
BuyBranch_retries(last, mex, j) ==
    LET trade == trade_usdt(j.balance)
        err == SizingError(j.price)
    IN  IF err # "" THEN Raise(position, last, mex, j, err)
        ELSE \E accepted \in BOOLEAN, again \in BOOLEAN :
             LET j1 == [Called(j, "create_order") EXCEPT
                           !.order = [side |-> "BUY", amount |-> trade]]
                 j2 == IF accepted THEN j1 ELSE Called(j1, "create_order")
             IN  IF accepted \/ again
                 THEN Return(open_position(position, j.price,
                                           btc_amount(trade, j.price)),
                             last, mex, Called(j2, "open_position"))
                 ELSE Return(position, last, mex,
                             [j2 EXCEPT !.order_failed = TRUE])

\* lines 176-188
BuyBranch(last, mex, j) ==
    LET trade == trade_usdt(j.balance)
        err == SizingError(j.price)
    IN  IF err # "" THEN Raise(position, last, mex, j, err)
        ELSE \E accepted \in BOOLEAN :
             LET j1 == [Called(j, "create_order") EXCEPT
                           !.order = [side |-> "BUY", amount |-> trade]]
             IN  IF accepted
                 THEN Return(open_position(position, j.price,
                                           btc_amount(trade, j.price)),
                             last, mex, Called(j1, "open_position"))
                 ELSE Return(position, last, mex,
                             [j1 EXCEPT !.order_failed = TRUE])

\* mutant: half the quantity is sold and the position stays open
SellBranch_partial(last, mex, j) ==
    \E accepted \in BOOLEAN :
        LET half == position.quantity \div 2
            j1 == [Called(j, "create_order") EXCEPT
                      !.order = [side |-> "SELL", amount |-> half]]
        IN  IF accepted
            THEN Return([position EXCEPT !.quantity = @ - half],
                        last, mex, j1)
            ELSE Return(position, last, mex,
                        [j1 EXCEPT !.order_failed = TRUE])

\* mutant: close_position is called whatever create_order answers
SellBranch_closes_anyway(last, mex, j) ==
    \E accepted \in BOOLEAN :
        LET j1 == [Called(j, "create_order") EXCEPT
                      !.order = [side |-> "SELL",
                                 amount |-> position.quantity],
                      !.order_failed = ~accepted]
        IN  Return(close_position(position), last, mex,
                   Called(j1, "close_position"))

\* lines 192-202
SellBranch(last, mex, j) ==
    \E accepted \in BOOLEAN :
        LET j1 == [Called(j, "create_order") EXCEPT
                      !.order = [side |-> "SELL",
                                 amount |-> position.quantity]]
        IN  IF accepted
            THEN Return(close_position(position), last, mex,
                        Called(j1, "close_position"))
            ELSE Return(position, last, mex,
                        [j1 EXCEPT !.order_failed = TRUE])

\* mutant: the comparison turned round
low_confidence_inverted(confidence) == confidence > CONFIDENCE_THRESHOLD

\* line 170
low_confidence(confidence) == confidence < CONFIDENCE_THRESHOLD

\* mutant: the position is not consulted
is_flat_unchecked(pos) == TRUE

\* line 174
is_flat(pos) == ~pos.in_position

\* line 175
buy_signal(prediction) == prediction = 1

\* mutant: a threshold breach alone closes the position
sell_signal_ignored(prediction) == TRUE

\* line 191, left operand
sell_signal(prediction) == prediction = 0 - 1

\* lines 170-204
Decide(last, mex, j) ==
    IF low_confidence(j.confidence) THEN Return(position, last, mex, j)
    ELSE IF is_flat(position)
    THEN IF buy_signal(j.prediction) THEN BuyBranch(last, mex, j)
         ELSE Return(position, last, mex, j)
    ELSE IF sell_signal(j.prediction)
    THEN LET s == should_close_position(position, j.price)
             j1 == Called(j, "should_close_position")
         IN  IF s.raised THEN Raise(position, last, mex, j1, "TypeError")
             ELSE IF s.ret THEN SellBranch(last, mex, j1)
             ELSE Return(position, last, mex, j1)
    ELSE Return(position, last, mex, j)

\* calculate_indicators ... dropna(): the bars that have every indicator
\* are LONGEST_WINDOW .. bars; <<first, last>>, empty when first > last
calculate_indicators(bars) == <<LONGEST_WINDOW, bars>>

\* add_target ... dropna(): the last HORIZON rows have no future_return
add_target(rows) == <<rows[1], rows[2] - HORIZON>>

\* lines 130-135: df.iloc[-1], the last row of the frame it is given
LatestRow(rows) == rows[2]

\* mutant: the artifact on disk is not looked for
train_or_load_model_retrains(exists, empty) ==
    IF empty
    THEN [calls |-> <<"fit">>, exists |-> exists, raised |-> TRUE, fits |-> 0]
    ELSE [calls |-> <<"fit", "dump">>, exists |-> TRUE, raised |-> FALSE,
          fits |-> 1]

\* lines 118-127, given whether the artifact exists and whether the frame is
\* empty: the calls made, whether the artifact exists afterwards, whether
\* fit raised (ValueError on an empty frame), and the fits that returned
train_or_load_model(exists, empty) ==
    IF exists
    THEN [calls |-> <<"load">>, exists |-> TRUE, raised |-> FALSE, fits |-> 0]
    ELSE IF empty
    THEN [calls |-> <<"fit">>, exists |-> FALSE, raised |-> TRUE, fits |-> 0]
    ELSE [calls |-> <<"fit", "dump">>, exists |-> TRUE, raised |-> FALSE,
          fits |-> 1]

\* lines 162-168
Predict(last, j) ==
    \E h \in HistoryResults :
        LET j1 == Called(j, "get_historical_data")
        IN  IF ~h.ok
            THEN Raise(position, last, model_exists, j1,
                       "get_historical_data")
            ELSE
            LET rows == add_target(calculate_indicators(h.val))
                empty == rows[1] > rows[2]
                j2 == [Called(Called(j1, "calculate_indicators"),
                              "add_target") EXCEPT !.bars = h.val]
                t == train_or_load_model(model_exists, empty)
                j3 == [j2 EXCEPT !.calls = @ \o t.calls,
                                 !.fits = @ + t.fits]
                mex == t.exists
            IN  IF t.raised
                THEN Raise(position, last, mex, j3, "ValueError")
                ELSE IF empty
                THEN Raise(position, last, mex, Called(j3, "predict"),
                           "IndexError")
                ELSE \E c \in Classes, conf \in Confidences :
                     Decide(last, mex,
                            [Called(j3, "predict") EXCEPT
                                !.row = LatestRow(rows),
                                !.prediction = c,
                                !.confidence = conf])

\* mutant: a zero total volume is let through
obi_undefined_ignored(bid_volume, ask_volume) == FALSE

\* line 160 (and 105): (bid - ask) / (bid + ask) raises ZeroDivisionError
obi_undefined(bid_volume, ask_volume) == bid_volume + ask_volume = 0

\* lines 157-160
Fetch(last, j) ==
    \E p \in PriceResults :
        LET j1 == Called(j, "get_price")
        IN  IF ~p.ok
            THEN Raise(position, last, model_exists, j1, "get_price")
            ELSE
            \E b \in BalanceResults :
                LET j2 == [Called(j1, "get_usdt_balance") EXCEPT
                              !.price = p.val]
                IN  IF ~b.ok
                    THEN Raise(position, last, model_exists, j2,
                               "get_usdt_balance")
                    ELSE
                    \E o \in BookResults :
                        LET j3 == [Called(j2, "get_order_book_stats")
                                      EXCEPT !.balance = b.val]
                        IN  IF ~o.ok
                            THEN Raise(position, last, model_exists, j3,
                                       "get_order_book_stats")
                            ELSE IF obi_undefined(o.val[1], o.val[2])
                            THEN Raise(position, last, model_exists,
                                       [j3 EXCEPT !.book = o.val],
                                       "ZeroDivisionError")
                            ELSE Predict(last, [j3 EXCEPT !.book = o.val])

\* lines 151-204
main ==
    LET g == can_trade(last_trade_time, clock)
        j == [Called(NewCycle(position, last_trade_time), "can_trade")
                 EXCEPT !.gate = g.ret, !.now = clock,
                        !.fits = cycle.fits]
    IN  IF ~g.ret
        THEN Return(position, g.last, model_exists, j)
        ELSE Fetch(g.last, j)

(***************************************************************************)
(* run_forever                                                             *)
(***************************************************************************)
\* line 209: one call of main(); an exception it raises leaves the loop
RunMain ==
    /\ pc = "main"
    /\ clock <= MaxSeconds * TicksPerSecond
    /\ main
    /\ \E d \in CycleTicks : clock' = clock + d
    /\ pc' = IF cycle'.outcome = "raised" THEN "terminated" ELSE "sleep"
    /\ UNCHANGED call

\* line 211: time.sleep(60)
Sleep ==
    /\ pc = "sleep"
    /\ clock' = clock + SLEEP_SECONDS * TicksPerSecond
    /\ pc' = "main"
    /\ UNCHANGED <<position, last_trade_time, model_exists, cycle, call>>

NoCall == [op |-> "none", arg |-> Unset, pre |-> PositionManagerInit,
           pre_last |-> None, ret |-> FALSE, raised |-> FALSE, n |-> 0]

Init ==
    /\ position = PositionManagerInit
    /\ last_trade_time = None
    /\ clock = 0
    /\ model_exists \in BOOLEAN
    /\ pc = "main"
    /\ cycle = NewCycle(PositionManagerInit, None)
    /\ call = NoCall

Next == RunMain \/ Sleep

Spec == Init /\ [][Next]_vars

(***************************************************************************)
(* Claims about the decision cycle, checked under Spec                     *)
(***************************************************************************)
Finished == cycle.outcome # "none"

\* the cycle passed the cooldown gate and the confidence gate
Decided ==
    /\ Finished
    /\ cycle.confidence # Unset
    /\ cycle.confidence >= CONFIDENCE_THRESHOLD

Breach(pos, price) ==
    /\ price # None
    /\ \/ price * MULT_SCALE >= pos.take_profit
       \/ price * MULT_SCALE <= pos.stop_loss

\* C1: a BUY is requested and open_position is called only in a cycle that
\* starts Flat; a SELL is requested and close_position is called only in a
\* cycle that starts Long; so two opens never occur without a close between.
C1_OneOpenPosition ==
    /\ (cycle.order.side = "BUY" \/ Has(cycle, "open_position"))
           => ~cycle.start.in_position
    /\ (cycle.order.side = "SELL" \/ Has(cycle, "close_position"))
           => cycle.start.in_position
    /\ ~(Has(cycle, "open_position") /\ Has(cycle, "close_position"))

\* a buy signal above the threshold arrives while Long, and nothing is bought
C1_Witness ==
    /\ Decided
    /\ cycle.start.in_position
    /\ cycle.prediction = 1
    /\ cycle.order = NoOrder
    /\ position = cycle.start

\* C2: when create_order fails, for a BUY or a SELL, the position at the end
\* of the cycle is the position at its start, neither open_position nor
\* close_position was called, and main() returns normally.
C2_FailedOrderKeepsPosition ==
    cycle.order_failed =>
        /\ position = cycle.start
        /\ ~Has(cycle, "open_position")
        /\ ~Has(cycle, "close_position")
        /\ cycle.outcome = "returned"

\* a SELL was rejected and the position is still the Long one
C2_Witness ==
    /\ cycle.order_failed
    /\ cycle.order.side = "SELL"
    /\ position.in_position

\* C3: whichever step of a cycle fails, run_forever starts the next cycle:
\* the outer loop never stops.
C3_LoopNeverStops == pc # "terminated"

\* C4: with confidence below the threshold, no order is requested and the
\* position is unchanged, whatever the class and the position.
C4_LowConfidenceHolds ==
    (Finished /\ cycle.confidence # Unset
              /\ cycle.confidence < CONFIDENCE_THRESHOLD) =>
        /\ cycle.order = NoOrder
        /\ ~Has(cycle, "create_order")
        /\ position = cycle.start
        /\ cycle.outcome = "returned"

\* Long, class -1, the price has crossed a threshold, confidence 0.55: held
C4_Witness ==
    /\ Finished
    /\ cycle.confidence = 55
    /\ cycle.start.in_position
    /\ cycle.prediction = 0 - 1
    /\ Breach(cycle.start, cycle.price)
    /\ position = cycle.start

\* C5: in a decided cycle that starts Long, a SELL is requested iff the
\* class is -1 and the price is >= take_profit or <= stop_loss; on success
\* the position is Flat; in every other case there is no order and the
\* position stays as it was.
C5_SellOnlyOnSignalAndBreach ==
    (Decided /\ cycle.start.in_position) =>
        /\ (cycle.order.side = "SELL") <=>
               (cycle.prediction = 0 - 1 /\ Breach(cycle.start, cycle.price))
        /\ cycle.order.side # "BUY"
        /\ (cycle.order.side = "SELL" /\ ~cycle.order_failed)
               => position = PositionManagerInit
        /\ (cycle.order.side = "SELL" =>
               cycle.order.amount = cycle.start.quantity)
        /\ (cycle.order = NoOrder \/ cycle.order_failed)
               => position = cycle.start

\* a SELL went through and the position is Flat
C5_Witness ==
    /\ Decided
    /\ cycle.start.in_position
    /\ cycle.order.side = "SELL"
    /\ ~cycle.order_failed
    /\ ~position.in_position

\* the number q is n / d to k decimals exactly, with nothing rounded off
ExactQuotient(q, n, d, k) ==
    LET p == ScaledDiv(n, d, k) IN p[2] = 0 /\ q = p[1]

\* the number q is n / d to k decimals, rounded to the nearest
NearestQuotient(q, n, d, k) ==
    LET p == ScaledDiv(n, d, k)
    IN  \/ q = p[1] /\ 2 * p[2] <= d
        \/ q = p[1] + 1 /\ 2 * p[2] >= d

Abs(x) == IF x < 0 THEN 0 - x ELSE x

\* C6 as stated: Flat and class +1: a BUY for exactly balance x 0.20 is
\* requested and, on success, the position is Long with entry = price,
\* quantity = trade_size / price exactly, tp = price x 1.007 and
\* sl = price x 0.985; class 0 or -1: no order, still Flat.
C6_AsStated ==
    (Decided /\ ~cycle.start.in_position) =>
        IF cycle.prediction = 1
        THEN /\ cycle.order.side = "BUY"
             /\ cycle.order.amount * CENTS = cycle.balance * TRADE_PERCENT
             /\ ~cycle.order_failed =>
                   /\ position.in_position
                   /\ position.entry_price = cycle.price
                   /\ ExactQuotient(position.quantity, cycle.order.amount,
                                    cycle.price, BTC_DECIMALS)
                   /\ position.take_profit = cycle.price * TP_MULTIPLIER
                   /\ position.stop_loss = cycle.price * SL_MULTIPLIER
        ELSE cycle.order = NoOrder /\ position = PositionManagerInit

\* C6 amended: Flat and class +1: with a missing or zero price the sizing
\* raises, no order is requested and the position stays Flat; otherwise a
\* BUY is requested for balance x 0.20 rounded to the cent and, on success,
\* the position is Long with entry = price, quantity = trade_size / price
\* rounded to 6 decimals, tp = price x 1.007, sl = price x 0.985 (balance
\* 1000, price 100: 200, 2.0, 100.7, 98.5); on failure it stays Flat.
\* Class 0 or -1: no order, still Flat.
C6_BuySizing ==
    (Decided /\ ~cycle.start.in_position) =>
        IF cycle.prediction = 1
        THEN IF cycle.price = None \/ cycle.price = 0
             THEN /\ cycle.outcome = "raised"
                  /\ cycle.order = NoOrder
                  /\ position = PositionManagerInit
             ELSE /\ cycle.order.side = "BUY"
                  /\ 2 * Abs(cycle.order.amount * CENTS
                             - cycle.balance * TRADE_PERCENT) <= CENTS
                  /\ cycle.order_failed => position = PositionManagerInit
                  /\ ~cycle.order_failed =>
                        /\ position.in_position
                        /\ position.entry_price = cycle.price
                        /\ NearestQuotient(position.quantity,
                                           cycle.order.amount, cycle.price,
                                           BTC_DECIMALS)
                        /\ position.take_profit = cycle.price * TP_MULTIPLIER
                        /\ position.stop_loss = cycle.price * SL_MULTIPLIER
                  /\ (cycle.balance = 100000 /\ cycle.price = 10000) =>
                        /\ cycle.order.amount = 20000
                        /\ ~cycle.order_failed =>
                              /\ position.quantity = 2000000
                              /\ position.take_profit = 10070000
                              /\ position.stop_loss = 9850000
        ELSE cycle.order = NoOrder /\ position = PositionManagerInit

\* a BUY whose size and quantity were both rounded went through
C6_Witness ==
    /\ Decided
    /\ ~cycle.start.in_position
    /\ cycle.prediction = 1
    /\ cycle.balance = 100003
    /\ cycle.price = 9850
    /\ cycle.order = [side |-> "BUY", amount |-> 20001]
    /\ position.in_position
    /\ position.quantity = 2030558

\* C8: the cooldown gate is queried exactly once per cycle and before any
\* other call; a cycle it denies fetches nothing, requests no order and
\* leaves the position and the cooldown timestamp unchanged.
C8_GateFirstAndDeniedCycleInert ==
    Finished =>
        /\ Count(cycle, "can_trade") = 1
        /\ cycle.calls[1] = "can_trade"
        /\ ~cycle.gate =>
              /\ cycle.calls = <<"can_trade">>
              /\ cycle.order = NoOrder
              /\ cycle.price = Unset /\ cycle.balance = Unset
              /\ cycle.bars = Unset
              /\ position = cycle.start
              /\ last_trade_time = cycle.start_last
              /\ cycle.outcome = "returned"

\* a cycle was denied while a position was open
C8_Witness ==
    /\ Finished
    /\ ~cycle.gate
    /\ cycle.start.in_position
    /\ pc = "sleep"

\* C9: while Long, stop_loss < entry_price < take_profit.
C9_LongThresholdsOrdered ==
    position.in_position =>
        /\ position.stop_loss < position.entry_price * MULT_SCALE
        /\ position.entry_price * MULT_SCALE < position.take_profit

\* a position was opened by a cycle
C9_Witness ==
    /\ position.in_position
    /\ Has(cycle, "open_position")

(***************************************************************************)
(* SpecGate: can_trade called at arbitrary times                           *)
(***************************************************************************)
\* time between two calls, in ticks: half a second, 30 s, 59 s, 60 s,
\* 60 s and a fraction, 61 s, a day and 30 s, a day and 61 s
GateDeltas ==
    {1, 30 * TicksPerSecond, 59 * TicksPerSecond, 60 * TicksPerSecond,
     60 * TicksPerSecond + 1, 61 * TicksPerSecond,
     (SecondsPerDay + 30) * TicksPerSecond,
     (SecondsPerDay + 61) * TicksPerSecond}

\* lines 144-149, called after d ticks have passed
CallCanTrade ==
    /\ pc = "gate"
    /\ call.n < MaxGateCalls
    /\ \E d \in GateDeltas :
          LET g == can_trade(last_trade_time, clock + d)
          IN  /\ clock' = clock + d
              /\ last_trade_time' = g.last
              /\ call' = [NoCall EXCEPT !.op = "can_trade",
                                        !.arg = clock + d,
                                        !.pre_last = last_trade_time,
                                        !.ret = g.ret,
                                        !.n = call.n + 1]
    /\ UNCHANGED <<position, model_exists, pc, cycle>>

InitGate ==
    /\ position = PositionManagerInit
    /\ last_trade_time = None
    /\ clock = 0
    /\ model_exists = FALSE
    /\ pc = "gate"
    /\ cycle = NewCycle(PositionManagerInit, None)
    /\ call = NoCall

NextGate == CallCanTrade

SpecGate == InitGate /\ [][NextGate]_vars

\* C7: can_trade returns true and sets the timestamp to now iff there is no
\* prior timestamp or now - last >= 60 seconds, for every elapsed time;
\* otherwise it returns false and leaves the timestamp unchanged.
C7_AsStated ==
    call.op = "can_trade" =>
        LET due == \/ call.pre_last = None
                   \/ call.arg - call.pre_last
                          >= COOLDOWN_SECONDS * TicksPerSecond
        IN  /\ call.ret <=> due
            /\ call.ret => last_trade_time = call.arg
            /\ ~call.ret => last_trade_time = call.pre_last

(***************************************************************************)
(* SpecPos: the position manager called directly                           *)
(***************************************************************************)
PosPrices == {9840, 9850, 9950, 9990, 10000, 10070, 10080}     \* cents
PosQuantities == {2000000}                                     \* 10^-6 BTC

PosCall(op, arg) ==
    [NoCall EXCEPT !.op = op, !.arg = arg, !.pre = position,
                   !.n = call.n + 1]

\* lines 66-72
CallOpenPosition ==
    /\ pc = "pos"
    /\ call.n < MaxPosCalls
    /\ \E price \in PosPrices, quantity \in PosQuantities :
          /\ position' = open_position(position, price, quantity)
          /\ call' = PosCall("open_position", price)
    /\ UNCHANGED <<last_trade_time, clock, model_exists, pc, cycle>>

\* lines 74-81
CallShouldClosePosition ==
    /\ pc = "pos"
    /\ call.n < MaxPosCalls
    /\ \E price \in PosPrices :
          LET s == should_close_position(position, price)
          IN  /\ position' = position
              /\ call' = [PosCall("should_close_position", price) EXCEPT
                             !.ret = s.ret, !.raised = s.raised]
    /\ UNCHANGED <<last_trade_time, clock, model_exists, pc, cycle>>

\* lines 83-89
CallClosePosition ==
    /\ pc = "pos"
    /\ call.n < MaxPosCalls
    /\ position' = close_position(position)
    /\ call' = PosCall("close_position", Unset)
    /\ UNCHANGED <<last_trade_time, clock, model_exists, pc, cycle>>

InitPos ==
    /\ position = PositionManagerInit
    /\ last_trade_time = None
    /\ clock = 0
    /\ model_exists = FALSE
    /\ pc = "pos"
    /\ cycle = NewCycle(PositionManagerInit, None)
    /\ call = NoCall

NextPos == CallOpenPosition \/ CallShouldClosePosition \/ CallClosePosition

SpecPos == InitPos /\ [][NextPos]_vars

\* C10: in state Long, should_close_position(p) is true iff p >= take_profit
\* or p <= stop_loss, the boundaries included (entry 100: 100.80, 100.70,
\* 98.50 and 98.40 give true, 99.50 gives false), and the position is left
\* as it was.
C10_ShouldCloseLong ==
    (call.op = "should_close_position" /\ call.pre.in_position) =>
        /\ ~call.raised
        /\ call.ret <=> \/ call.arg * MULT_SCALE >= call.pre.take_profit
                        \/ call.arg * MULT_SCALE <= call.pre.stop_loss
        /\ position = call.pre
        /\ call.pre.entry_price = 10000 =>
              /\ call.pre.take_profit = 10070000
              /\ call.pre.stop_loss = 9850000
              /\ call.arg \in {10080, 10070, 9850, 9840} => call.ret
              /\ call.arg \in {9950, 9990, 10000} => ~call.ret

\* the price is exactly the take-profit of a position entered at 100
C10_Witness ==
    /\ call.op = "should_close_position"
    /\ call.pre.in_position
    /\ call.pre.entry_price = 10000
    /\ call.arg = 10070
    /\ call.ret

(***************************************************************************)
(* Claims about the position manager called directly, under SpecPos        *)
(***************************************************************************)
\* C11: in state Flat, should_close_position(p) returns false for every
\* price: it does not fail and does not change the position.
C11_AsStated ==
    (call.op = "should_close_position" /\ ~call.pre.in_position) =>
        /\ ~call.raised
        /\ ~call.ret
        /\ position = call.pre

\* C12: open_position called while Long leaves entry_price, quantity,
\* take_profit and stop_loss as they were; close_position called while Flat
\* leaves the state Flat.
C12_AsStated ==
    /\ (call.op = "open_position" /\ call.pre.in_position) =>
           /\ position.in_position
           /\ position.entry_price = call.pre.entry_price
           /\ position.quantity = call.pre.quantity
           /\ position.take_profit = call.pre.take_profit
           /\ position.stop_loss = call.pre.stop_loss
    /\ (call.op = "close_position" /\ ~call.pre.in_position) =>
           position = PositionManagerInit

(***************************************************************************)
(* Further claims about the decision cycle, under Spec                     *)
(***************************************************************************)
WellFormed(pos) ==
    \/ pos = PositionManagerInit
    \/ /\ pos.in_position
       /\ pos.entry_price # None /\ pos.take_profit # None
       /\ pos.stop_loss # None /\ pos.quantity # None

\* C13: the position is always either Flat with entry_price, take_profit,
\* stop_loss and quantity cleared, or Long with all four set; it is Flat
\* before the first cycle, and close_position yields the cleared Flat shape.
C13_PositionWellFormed ==
    /\ WellFormed(position)
    /\ cycle.outcome = "none" => position = PositionManagerInit
    /\ Has(cycle, "close_position") => position = PositionManagerInit

\* a Long position was closed by the cycle
C13_Witness ==
    /\ Has(cycle, "close_position")
    /\ cycle.start.in_position
    /\ cycle.start.quantity # None
    /\ ~position.in_position

\* C14: a cycle that starts and ends Long leaves entry_price, quantity,
\* take_profit and stop_loss as they were, and a SELL request is for the
\* quantity the position holds.
C14_NoRepricingWhileLong ==
    [][/\ (position.in_position /\ position'.in_position)
              => position' = position
       /\ (pc = "main" /\ cycle'.order.side = "SELL")
              => cycle'.order.amount = position.quantity]_vars

\* a position bought with balance 1000.03 at 98.50 is sold whole
C14_Witness ==
    /\ cycle.order = [side |-> "SELL", amount |-> 2030558]
    /\ cycle.start.entry_price = 9850
    /\ ~cycle.order_failed
    /\ ~position.in_position

\* C15: the Signal is computed from the feature row of the most recent bar
\* of the fetched series, and the labeling step that drops the last HORIZON
\* bars is not applied to the rows inference reads.
C15_AsStated ==
    Has(cycle, "predict") =>
        /\ ~Has(cycle, "add_target")
        /\ cycle.row # Unset => cycle.row = cycle.bars

\* C16: a cycle issues at most one order request: never a BUY and a SELL,
\* and no second request after a failed one.
C16_AtMostOneOrder ==
    /\ Count(cycle, "create_order") <= 1
    /\ Count(cycle, "create_order") = 1 <=> cycle.order # NoOrder
    /\ cycle.order_failed =>
           cycle.calls[Len(cycle.calls)] = "create_order"

\* a BUY was rejected and the cycle ended there
C16_Witness ==
    /\ cycle.order_failed
    /\ cycle.order.side = "BUY"
    /\ Count(cycle, "create_order") = 1
    /\ pc = "sleep"

\* the feature pipeline cannot produce a full vector
NoFeatureVector ==
    \/ cycle.book # <<Unset, Unset>> /\ cycle.book[1] + cycle.book[2] = 0
    \/ cycle.bars # Unset /\ cycle.bars < LONGEST_WINDOW

\* C17: a cycle with bid_volume + ask_volume = 0, or with too few bars for
\* the rolling windows, is aborted with no decision: no prediction is made,
\* no order is requested and the position is unchanged.
C17_NoVectorNoDecision ==
    (Finished /\ NoFeatureVector) =>
        /\ cycle.outcome = "raised"
        /\ cycle.prediction = Unset
        /\ cycle.order = NoOrder
        /\ ~Has(cycle, "create_order")
        /\ position = cycle.start

\* zero volume in both books while a position is open
C17_Witness ==
    /\ Finished
    /\ cycle.book = <<0, 0>>
    /\ cycle.start.in_position
    /\ position = cycle.start

\* C18: the oracle is trained at most once: fit is called only in a cycle
\* that finds no artifact, a fit that returns is followed by dump in that
\* cycle, and once the artifact exists every cycle loads it without fit or
\* dump and the artifact stays.
C18_TrainedAtMostOnce ==
    /\ [](cycle.fits <= 1)
    /\ [][pc = "main" =>
            /\ model_exists =>
                  /\ model_exists'
                  /\ ~Has(cycle', "fit") /\ ~Has(cycle', "dump")
                  /\ Has(cycle', "add_target") => Has(cycle', "load")
            /\ Has(cycle', "fit") => ~model_exists /\ ~Has(cycle', "load")
            /\ cycle'.fits > cycle.fits =>
                  Has(cycle', "dump") /\ model_exists'
            /\ Has(cycle', "dump") <=> cycle'.fits > cycle.fits]_vars

\* a cycle loads the artifact an earlier cycle trained and saved
C18_Witness ==
    /\ cycle.fits = 1
    /\ Has(cycle, "load")
    /\ ~Has(cycle, "fit")
    /\ model_exists

\* C19: in run_forever the cooldown gate never denies a cycle: a cycle that
\* starts at least 60 seconds after the previous admitted gate query goes
\* on to the market-data fetch, however short the cycles are.
C19_AsStated ==
    (/\ Finished
     /\ \/ cycle.start_last = None
        \/ cycle.now - cycle.start_last
               >= COOLDOWN_SECONDS * TicksPerSecond) =>
        /\ cycle.gate
        /\ Has(cycle, "get_price")

====
